---- MODULE Spec2Model ----
(***************************************************************************)
(* Model of misconfig-configcommentanalyzer (src/main.py): one run of      *)
(* main() over one configuration file.  Lines and paths are sequences of   *)
(* one-character strings so that the regular expressions, str.lower(),     *)
(* str.endswith() and str.strip() are computed character by character.     *)
(***************************************************************************)
EXTENDS Integers, Sequences, FiniteSets, TLC

\* ------------------------------------------------------------------------
\* Bounds and inputs
\* ------------------------------------------------------------------------

\* Largest number of lines of an input file.
MaxLines == 2

\* {20,} in the credential regular expression.
MinSecretLen == 20

\* The lines input files are made of (a line is named by its index here).
\* Lines are held without their trailing newline: no pattern of the program
\* can use it and strip() removes it.
Corpus ==
  << \* 1: # TODO fix
     <<"#"," ","T","O","D","O"," ","f","i","x">>,
     \* 2:   // Deprecated flag
     <<" "," ","/","/"," ","D","e","p","r","e","c","a","t","e","d"," ","f","l","a","g">>,
     \* 3: # TODO /* old */
     <<"#"," ","T","O","D","O"," ","/","*"," ","o","l","d"," ","*","/">>,
     \* 4: # TODO: deprecated
     <<"#"," ","T","O","D","O",":"," ","d","e","p","r","e","c","a","t","e","d">>,
     \* 5: port: 80 # note FIXME
     <<"p","o","r","t",":"," ","8","0"," ","#"," ","n","o","t","e"," ","F","I","X","M","E">>,
     \* 6: name: demo
     <<"n","a","m","e",":"," ","d","e","m","o">>,
     \* 7: password = "abcdefghijklmnopqrst"      (20 characters)
     <<"p","a","s","s","w","o","r","d"," ","="," ","\"","a","b","c","d","e","f","g","h","i","j","k","l","m","n","o","p","q","r","s","t","\"">>,
     \* 8: password = "abcdefghijklmnopqrs"       (19 characters)
     <<"p","a","s","s","w","o","r","d"," ","="," ","\"","a","b","c","d","e","f","g","h","i","j","k","l","m","n","o","p","q","r","s","\"">>,
     \* 9: APIKEY=ABCDEFGHIJ0123456789_- #XXX
     <<"A","P","I","K","E","Y","=","A","B","C","D","E","F","G","H","I","J","0","1","2","3","4","5","6","7","8","9","_","-"," ","#","X","X","X">>,
     \* 10: secret abcdefghijklmnopqrstuvwxyz     (no separator)
     <<"s","e","c","r","e","t"," ","a","b","c","d","e","f","g","h","i","j","k","l","m","n","o","p","q","r","s","t","u","v","w","x","y","z">> >>

\* The file paths of the runs.
Paths ==
  { <<"a",".","y","a","m","l">>,
    <<"a",".","y","m","l">>,
    <<"a",".","j","s","o","n">>,
    <<"a",".","t","x","t">>,
    <<"A",".","Y","A","M","L">> }

\* Files of at most n lines made of the corpus lines of ids.
FilesOf(ids, n) == UNION { [1..k -> ids] : k \in 0..n }

\* ------------------------------------------------------------------------
\* Characters and strings
\* ------------------------------------------------------------------------

UpperChars ==
  <<"A","B","C","D","E","F","G","H","I","J","K","L","M","N","O","P","Q","R","S","T","U","V","W","X","Y","Z">>

LowerChars ==
  <<"a","b","c","d","e","f","g","h","i","j","k","l","m","n","o","p","q","r","s","t","u","v","w","x","y","z">>

DigitChars == <<"0","1","2","3","4","5","6","7","8","9">>

Range(s) == { s[i] : i \in 1..Len(s) }

\* \s of the re module, for the characters a line can hold.
IsSpace(c) == c \in {" ", "\t", "\n", "\r"}

\* [a-zA-Z0-9_-]
IsTokenChar(c) ==
  c \in Range(UpperChars) \cup Range(LowerChars) \cup Range(DigitChars) \cup {"_", "-"}

\* One character of str.lower() / of re.IGNORECASE matching.
LowerChar(c) ==
  IF c \in Range(UpperChars)
    THEN LowerChars[CHOOSE i \in 1..Len(UpperChars) : UpperChars[i] = c]
    ELSE c

\* str.lower()
lower(s) == [i \in 1..Len(s) |-> LowerChar(s[i])]

\* str.endswith(suffix)
endswith(s, suffix) ==
  /\ Len(suffix) <= Len(s)
  /\ SubSeq(s, Len(s) - Len(suffix) + 1, Len(s)) = suffix

\* str.strip()
strip(s) ==
  LET keep == { i \in 1..Len(s) : ~IsSpace(s[i]) }
  IN  IF keep = {} THEN <<>>
      ELSE SubSeq(s, CHOOSE i \in keep : \A j \in keep : i <= j,
                     CHOOSE i \in keep : \A j \in keep : j <= i)

\* The literal lit matches s at position i.
MatchAt(s, i, lit) ==
  /\ i >= 1
  /\ i + Len(lit) - 1 <= Len(s)
  /\ SubSeq(s, i, i + Len(lit) - 1) = lit

\* The position after a greedy \s* started at i.  What follows \s* in the
\* program's patterns never starts with a space, so greedy is the only match.
SkipSpace(s, i) ==
  CHOOSE j \in i..(Len(s) + 1) :
    /\ \A k \in i..(j - 1) : IsSpace(s[k])
    /\ (j <= Len(s) => ~IsSpace(s[j]))

\* The length of the run of token characters of s that starts at i.
TokenRun(s, i) ==
  LET j == CHOOSE j \in i..(Len(s) + 1) :
             /\ \A k \in i..(j - 1) : IsTokenChar(s[k])
             /\ (j <= Len(s) => ~IsTokenChar(s[j]))
  IN  j - i

\* (#|\/\/|\/\*)
CommentTokens == { <<"#">>, <<"/","/">>, <<"/","*">> }

\* (TODO|FIXME|XXX)
MarkerWords == { <<"T","O","D","O">>, <<"F","I","X","M","E">>, <<"X","X","X">> }

\* (deprecated|obsolete|old)
StaleWords ==
  { <<"d","e","p","r","e","c","a","t","e","d">>,
    <<"o","b","s","o","l","e","t","e">>,
    <<"o","l","d">> }

\* (api_key|apikey|password|secret)
SecretKeys ==
  { <<"a","p","i","_","k","e","y">>,
    <<"a","p","i","k","e","y">>,
    <<"p","a","s","s","w","o","r","d">>,
    <<"s","e","c","r","e","t">> }

\* re.search(r"(#|\/\/|\/\*)\s*(w1|w2|..)", line): a comment token, then
\* optional whitespace, then one of the words, at some position of the line.
SearchComment(line, words) ==
  \E i \in 1..Len(line) : \E tok \in CommentTokens :
    /\ MatchAt(line, i, tok)
    /\ \E w \in words : MatchAt(line, SkipSpace(line, i + Len(tok)), w)

\* re.search of the marker pattern (case-sensitive).
SearchMarker(line) == SearchComment(line, MarkerWords)

\* re.search of the staleness pattern with re.IGNORECASE.
SearchStale(line) == SearchComment(lower(line), StaleWords)

\* re.search of the credential pattern with re.IGNORECASE: a key, \s*, one of
\* ":" "=", \s*, an optional quote, at least MinSecretLen token characters
\* (the closing optional quote always matches).
SearchSecretMin(line, min) ==
  LET s == lower(line)
  IN  \E i \in 1..Len(s) : \E key \in SecretKeys :
        /\ MatchAt(s, i, key)
        /\ LET a == SkipSpace(s, i + Len(key))
           IN  /\ a <= Len(s)
               /\ s[a] \in {":", "="}
               /\ LET b == SkipSpace(s, a + 1)
                      c == IF b <= Len(s) /\ s[b] \in {"\"", "'"} THEN b + 1 ELSE b
                  IN  TokenRun(s, c) >= min

\* SearchSecret with {21,} for {20,}.
SearchSecretLonger(line) == SearchSecretMin(line, MinSecretLen + 1)

SearchSecret(line) == SearchSecretMin(line, MinSecretLen)

\* ------------------------------------------------------------------------
\* Warnings, documents, linter outcomes
\* ------------------------------------------------------------------------

\* One entry of a result list: the fixed part of the message, the line number
\* and the stripped line it quotes (0 and <<>> when it quotes none), and the
\* linter output it embeds ("" when none).
W(msg, line, text, out) == [msg |-> msg, line |-> line, text |-> text, out |-> out]

ErrNotFound == W("Error: File not found.", 0, <<>>, "")

ErrRead == W("Error: Failed to read file.", 0, <<>>, "")

ErrFiletype == W("Error: Invalid filetype specified.", 0, <<>>, "")

\* The scalars a parsed document can hold under a key, tagged by Python type;
\* "absent" stands for the key not being in the mapping.
Scalars == {"str:v1", "str:v2", "bool:true", "bool:false", "num:1"}

\* What yaml.safe_load / json.loads makes of the content: a failure (YAMLError,
\* JSONDecodeError) or the top-level value; of a mapping, the keys the rules
\* look at.
Doc(kind, api_version, debug) == [kind |-> kind, api_version |-> api_version, debug |-> debug]

Docs ==
  { Doc("failure", "absent", "absent"),
    Doc("sequence", "absent", "absent"),
    Doc("scalar", "absent", "absent") }
  \cup { Doc("mapping", a, d) : a \in {"absent", "str:v1", "str:v2"},
                                d \in {"absent", "bool:true", "bool:false", "num:1"} }

\* What subprocess.run([linter, filepath], capture_output=True, text=True)
\* does: FileNotFoundError when the executable is not on the host, else a
\* completed process.
Proc(present, returncode, stdout, stderr) ==
  [present |-> present, returncode |-> returncode, stdout |-> stdout, stderr |-> stderr]

LinterOutcomes ==
  { Proc(FALSE, 0, "", ""),
    Proc(TRUE, 0, "", ""),
    Proc(TRUE, 0, "out", ""),
    Proc(TRUE, 1, "out", ""),
    Proc(TRUE, 1, "", "err") }

\* choices of --filetype
FiletypeChoices == {"yaml", "json", "auto"}

\* Python's == on the tagged scalars: True == 1.
py_eq(a, b) ==
  \/ a = b
  \/ {a, b} = {"bool:true", "num:1"}

\* Python's `is` on the tagged scalars.
py_is(a, b) == a = b

\* ------------------------------------------------------------------------
\* The functions of main.py
\* ------------------------------------------------------------------------

RECURSIVE CommentScan(_, _)
\* The loop of analyze_comments over the lines from position i on.
CommentScan(ls, i) ==
  IF i > Len(ls) THEN <<>>
  ELSE LET line == Corpus[ls[i]]
       IN  (IF SearchMarker(line)
              THEN <<W("Warning: Potential TODO/FIXME/XXX found on line", i, strip(line), "")>>
              ELSE <<>>)
           \o (IF SearchStale(line)
                 THEN <<W("Warning: Potential outdated comment found on line", i, strip(line), "")>>
                 ELSE <<>>)
           \o CommentScan(ls, i + 1)

\* analyze_comments(filepath) on a file in state fs holding the lines ls.
analyze_comments(fs, ls) ==
  CASE fs = "missing" -> <<ErrNotFound>>
    [] fs = "unreadable" -> <<ErrRead>>
    [] OTHER -> CommentScan(ls, 1)

RECURSIVE SecretScan(_, _)
\* The loop of find_secrets over the lines from position i on.
SecretScan(ls, i) ==
  IF i > Len(ls) THEN <<>>
  ELSE LET line == Corpus[ls[i]]
       IN  (IF SearchSecret(line)
              THEN <<W("Potential secret found on line", i, strip(line), "")>>
              ELSE <<>>)
           \o SecretScan(ls, i + 1)

\* find_secrets(filepath)
find_secrets(fs, ls) ==
  CASE fs = "missing" -> <<ErrNotFound>>
    [] fs = "unreadable" -> <<ErrRead>>
    [] OTHER -> SecretScan(ls, 1)

\* resolve_filetype with the suffix overriding a declared filetype.
resolve_by_suffix_always(path, ft) ==
  IF \/ endswith(lower(path), <<".","y","a","m","l">>)
     \/ endswith(lower(path), <<".","y","m","l">>)
    THEN "yaml"
  ELSE IF endswith(lower(path), <<".","j","s","o","n">>) THEN "json"
  ELSE IF ft # "auto" THEN ft
  ELSE "unknown"

\* The filetype in effect after the auto-detection of analyze_file_content;
\* "unknown" stands for the branch that falls back to analyze_comments.
resolve_filetype(path, ft) ==
  IF ft # "auto" THEN ft
  ELSE IF \/ endswith(lower(path), <<".","y","a","m","l">>)
          \/ endswith(lower(path), <<".","y","m","l">>)
         THEN "yaml"
       ELSE IF endswith(lower(path), <<".","j","s","o","n">>) THEN "json"
       ELSE "unknown"

\* yamllint_check with the absence of the executable reported like a failure.
yamllint_check_unguarded(p) ==
  IF ~p.present \/ p.returncode # 0 THEN <<W("yamllint found issues:", 0, <<>>, p.stdout)>>
  ELSE IF p.stdout # "" THEN <<W("yamllint reported:", 0, <<>>, p.stdout)>>
  ELSE <<>>

\* The yamllint block: what it appends to warnings.
yamllint_check(p) ==
  IF ~p.present THEN <<>>
  ELSE IF p.returncode # 0 THEN <<W("yamllint found issues:", 0, <<>>, p.stdout)>>
  ELSE IF p.stdout # "" THEN <<W("yamllint reported:", 0, <<>>, p.stdout)>>
  ELSE <<>>

\* The jsonlint block: what it appends to warnings.
jsonlint_check(p) ==
  IF ~p.present THEN <<>>
  ELSE IF p.returncode # 0 THEN <<W("jsonlint found issues:", 0, <<>>, p.stderr)>>
  ELSE IF p.stdout # "" THEN <<W("jsonlint reported:", 0, <<>>, p.stdout)>>
  ELSE <<>>

\* yaml_check without the comparison with 'v1'.
yaml_check_any_version(data) ==
  IF data.kind = "mapping" /\ data.api_version # "absent"
    THEN <<W("Warning: api_version is v1, consider upgrading to a newer version.", 0, <<>>, "")>>
    ELSE <<>>

\* The YAML specific check: what it appends to warnings.
yaml_check(data) ==
  IF data.kind = "mapping" /\ data.api_version # "absent" /\ py_eq(data.api_version, "str:v1")
    THEN <<W("Warning: api_version is v1, consider upgrading to a newer version.", 0, <<>>, "")>>
    ELSE <<>>

\* The JSON specific check: what it appends to warnings.
json_check(data) ==
  IF data.kind = "mapping" /\ data.debug # "absent" /\ py_is(data.debug, "bool:true")
    THEN <<W("Warning: Debug mode is enabled. Disable in production.", 0, <<>>, "")>>
    ELSE <<>>

\* The message of the except clause of a failed parse.
parse_error(ft) ==
  IF ft = "yaml" THEN W("Error parsing YAML:", 0, <<>>, "")
  ELSE W("Error parsing JSON:", 0, <<>>, "")

\* ------------------------------------------------------------------------
\* One run of main()
\* ------------------------------------------------------------------------

VARIABLES
  args,              \* the parsed command line: filepath, filetype, find_secrets
  fstate,            \* the state of the file at args.filepath
  lines,             \* the lines of the file (indices into Corpus)
  parsed,            \* what the parser of the format in effect makes of the content
  linter,            \* what running the linter of the format in effect does
  pc,                \* the position of the run
  filetype,          \* the local filetype of analyze_file_content
  warnings,          \* the local warnings of analyze_file_content
  analysis_results,  \* main's analysis_results
  calls,             \* the collaborators invoked so far
  exit_status,       \* the exit status of the process, -1 while it runs
  output             \* the heading printed on standard output

vars ==
  <<args, fstate, lines, parsed, linter, pc, filetype, warnings,
    analysis_results, calls, exit_status, output>>

env == <<args, fstate, lines, parsed, linter>>

ArgsSet(paths, filetypes) ==
  [filepath : paths, filetype : filetypes, find_secrets : BOOLEAN]

Start ==
  /\ pc = "main"
  /\ filetype = "auto"
  /\ warnings = <<>>
  /\ analysis_results = <<>>
  /\ calls = {}
  /\ exit_status = -1
  /\ output = ""

\* Readable files of few kinds of lines, with every document, linter outcome,
\* path and option.
InitOrchestration ==
  /\ args \in ArgsSet(Paths, FiletypeChoices)
  /\ fstate = "ok"
  /\ lines \in FilesOf({3, 6, 9}, MaxLines)
  /\ parsed \in Docs
  /\ linter \in LinterOutcomes

\* Readable files of every kind of line, with few documents and paths.
InitLines ==
  /\ args \in ArgsSet({<<"a",".","y","a","m","l">>, <<"a",".","t","x","t">>}, {"auto", "json"})
  /\ fstate = "ok"
  /\ lines \in FilesOf(1..Len(Corpus), MaxLines)
  /\ parsed \in {Doc("failure", "absent", "absent"), Doc("mapping", "str:v1", "bool:true")}
  /\ linter = Proc(FALSE, 0, "", "")

\* Files that are absent or cannot be read: they have no content.
InitUnreadable ==
  /\ args \in ArgsSet(Paths, FiletypeChoices)
  /\ fstate \in {"missing", "unreadable"}
  /\ lines = <<>>
  /\ parsed = Doc("failure", "absent", "absent")
  /\ linter \in LinterOutcomes

Init ==
  /\ Start
  /\ \/ InitOrchestration
     \/ InitLines
     \/ InitUnreadable

\* main: os.path.exists(args.filepath); an absent file ends the process with
\* status 1 after the error message.
CheckExists ==
  /\ pc = "main"
  /\ IF fstate = "missing"
       THEN /\ pc' = "exited"
            /\ exit_status' = 1
            /\ output' = "Error: File not found:"
       ELSE /\ pc' = "open"
            /\ UNCHANGED <<exit_status, output>>
  /\ UNCHANGED <<env, filetype, warnings, analysis_results, calls>>

\* analyze_file_content: open and read the file; the except clauses return a
\* one-entry list.
ReadContent ==
  /\ pc = "open"
  /\ filetype' = args.filetype
  /\ CASE fstate = "missing" ->
            /\ analysis_results' = <<ErrNotFound>>
            /\ pc' = "secrets"
       [] fstate = "unreadable" ->
            /\ analysis_results' = <<ErrRead>>
            /\ pc' = "secrets"
       [] OTHER ->
            /\ pc' = "detect"
            /\ UNCHANGED analysis_results
  /\ UNCHANGED <<env, warnings, calls, exit_status, output>>

\* DetectFiletype without the return of the unknown branch: the run goes on
\* with filetype 'auto'.
DetectFiletypeNoReturn ==
  /\ pc = "detect"
  /\ filetype' = (IF resolve_filetype(args.filepath, filetype) = "unknown" THEN "auto"
                  ELSE resolve_filetype(args.filepath, filetype))
  /\ pc' = "parse"
  /\ UNCHANGED <<env, warnings, analysis_results, calls, exit_status, output>>

\* analyze_file_content: the auto-detection; an unknown suffix returns
\* analyze_comments(filepath).
DetectFiletype ==
  /\ pc = "detect"
  /\ filetype' = resolve_filetype(args.filepath, filetype)
  /\ IF filetype' = "unknown"
       THEN /\ analysis_results' = analyze_comments(fstate, lines)
            /\ calls' = calls \cup {"analyze_comments"}
            /\ pc' = "secrets"
       ELSE /\ pc' = "parse"
            /\ UNCHANGED <<analysis_results, calls>>
  /\ UNCHANGED <<env, warnings, exit_status, output>>

\* ParseContent with the lint check made outside the try block of the parse:
\* it runs after a parse error too.
ParseContentThenLint ==
  /\ pc = "parse"
  /\ IF filetype \in {"yaml", "json"}
       THEN /\ calls' = calls \cup {IF filetype = "yaml" THEN "yaml.safe_load" ELSE "json.loads"}
            /\ pc' = "lint"
            /\ IF parsed.kind = "failure"
                 THEN warnings' = Append(warnings, parse_error(filetype))
                 ELSE UNCHANGED warnings
            /\ UNCHANGED analysis_results
       ELSE /\ warnings' = Append(warnings, ErrFiletype)
            /\ analysis_results' = warnings'
            /\ pc' = "secrets"
            /\ UNCHANGED calls
  /\ UNCHANGED <<env, filetype, exit_status, output>>

\* analyze_file_content: yaml.safe_load(content) / json.loads(content); a parse
\* error is appended by the except clause and the function returns.
ParseContent ==
  /\ pc = "parse"
  /\ IF filetype \in {"yaml", "json"}
       THEN /\ calls' = calls \cup {IF filetype = "yaml" THEN "yaml.safe_load" ELSE "json.loads"}
            /\ IF parsed.kind = "failure"
                 THEN /\ warnings' = Append(warnings, parse_error(filetype))
                      /\ analysis_results' = warnings'
                      /\ pc' = "secrets"
                 ELSE /\ pc' = "lint"
                      /\ UNCHANGED <<warnings, analysis_results>>
       ELSE /\ warnings' = Append(warnings, ErrFiletype)
            /\ analysis_results' = warnings'
            /\ pc' = "secrets"
            /\ UNCHANGED calls
  /\ UNCHANGED <<env, filetype, exit_status, output>>

\* analyze_file_content: the lint check of the format in effect.
RunLinter ==
  /\ pc = "lint"
  /\ calls' = calls \cup {IF filetype = "yaml" THEN "yamllint" ELSE "jsonlint"}
  /\ warnings' = warnings \o (IF filetype = "yaml" THEN yamllint_check(linter)
                              ELSE jsonlint_check(linter))
  /\ pc' = "check"
  /\ UNCHANGED <<env, filetype, analysis_results, exit_status, output>>

\* analyze_file_content: the specific check of the format in effect, then
\* return warnings.
SpecificCheck ==
  /\ pc = "check"
  /\ calls' = calls \cup {IF filetype = "yaml" THEN "yaml_check" ELSE "json_check"}
  /\ warnings' = warnings \o (IF filetype = "yaml" THEN yaml_check(parsed)
                              ELSE json_check(parsed))
  /\ analysis_results' = warnings'
  /\ pc' = "secrets"
  /\ UNCHANGED <<env, filetype, exit_status, output>>

\* main: if args.find_secrets, extend analysis_results by find_secrets.
FindSecrets ==
  /\ pc = "secrets"
  /\ IF args.find_secrets
       THEN /\ analysis_results' = analysis_results \o find_secrets(fstate, lines)
            /\ calls' = calls \cup {"find_secrets"}
       ELSE UNCHANGED <<analysis_results, calls>>
  /\ pc' = "print"
  /\ UNCHANGED <<env, filetype, warnings, exit_status, output>>

\* main: print the results or "No issues found."; the process ends normally.
PrintResults ==
  /\ pc = "print"
  /\ output' = IF analysis_results # <<>> THEN "Analysis Results:" ELSE "No issues found."
  /\ exit_status' = 0
  /\ pc' = "done"
  /\ UNCHANGED <<env, filetype, warnings, analysis_results, calls>>

Next ==
  \/ CheckExists
  \/ ReadContent
  \/ DetectFiletype
  \/ ParseContent
  \/ RunLinter
  \/ SpecificCheck
  \/ FindSecrets
  \/ PrintResults

Spec == Init /\ [][Next]_vars

\* ------------------------------------------------------------------------
\* Vocabulary of the properties
\* ------------------------------------------------------------------------

\* The producer of a result entry, read off its message.
Source(w) ==
  CASE w.msg \in {"Warning: Potential TODO/FIXME/XXX found on line",
                  "Warning: Potential outdated comment found on line"} -> "comment-scan"
    [] w.msg \in {"Warning: api_version is v1, consider upgrading to a newer version.",
                  "Warning: Debug mode is enabled. Disable in production."} -> "rule-engine"
    [] w.msg \in {"Error parsing YAML:", "Error parsing JSON:"} -> "parse-error"
    [] w.msg \in {"yamllint found issues:", "yamllint reported:",
                  "jsonlint found issues:", "jsonlint reported:"} -> "external-linter"
    [] w.msg = "Potential secret found on line" -> "secret-scan"
    [] OTHER -> "error"

\* The place of a producer in the order of the result: LineScanner, then
\* RuleEngine and parse errors, then ExternalLinter, then the secret scan.
Rank(w) ==
  CASE Source(w) = "comment-scan" -> 1
    [] Source(w) \in {"rule-engine", "parse-error", "error"} -> 2
    [] Source(w) = "external-linter" -> 3
    [] OTHER -> 4

\* The positions of the entries of res that come from the producers srcs.
From(res, srcs) == { k \in 1..Len(res) : Source(res[k]) \in srcs }

\* The entries of res with the message msg that quote line i.
OnLine(res, msg, i) == { k \in 1..Len(res) : res[k].msg = msg /\ res[k].line = i }

\* analyze_file_content has returned.
Returned == pc \in {"secrets", "print", "done"}

IsSecretEntry(w) == Source(w) = "secret-scan"

IsContentEntry(w) == ~IsSecretEntry(w)

IsRuleEntry(w) == Source(w) = "rule-engine"

\* The part of the result of a readable file that analyze_file_content
\* returned: its entries other than those of the secret scan.
ContentResult == SelectSeq(analysis_results, IsContentEntry)

YamlSteps == {"yaml.safe_load", "yamllint", "yaml_check"}

JsonSteps == {"json.loads", "jsonlint", "json_check"}

\* The format a run is to use: the declared one, or by the suffix of the path
\* (compared without regard to case, as paths of configuration files are).
ExpectedFormat ==
  IF args.filetype # "auto" THEN args.filetype
  ELSE IF args.filepath \in {<<"a",".","y","a","m","l">>, <<"a",".","y","m","l">>, <<"A",".","Y","A","M","L">>}
         THEN "yaml"
  ELSE IF args.filepath = <<"a",".","j","s","o","n">> THEN "json"
  ELSE "unknown"

\* The corpus lines in which a comment token is followed, anywhere later on
\* the line, by a marker word.
MarkerAnywhere(line) ==
  \E i \in 1..Len(line) : \E tok \in CommentTokens :
    /\ MatchAt(line, i, tok)
    /\ \E j \in (i + Len(tok))..Len(line) : \E w \in MarkerWords : MatchAt(line, j, w)

\* The corpus lines in which a comment token is followed, anywhere later on
\* the line, by deprecated, obsolete or old in any case.
StaleAnywhere(line) ==
  \E i \in 1..Len(line) : \E tok \in CommentTokens :
    /\ MatchAt(line, i, tok)
    /\ \E j \in (i + Len(tok))..Len(line) : \E w \in StaleWords : MatchAt(lower(line), j, w)

\* The corpus lines that hold a key fragment followed by a separator and a
\* token of at least 20 allowed characters: lines 7 and 9.
SecretLineIds == {7, 9}

\* ------------------------------------------------------------------------
\* Properties
\* ------------------------------------------------------------------------

\* C1: the LineScanner runs unconditionally: the result of every run on a
\* readable file, whatever the format and the outcome of the parse, holds
\* the comment-scan warning of every line that matches the marker or the
\* staleness pattern.
C1_ScanUnconditional ==
  (pc = "done" /\ fstate = "ok") =>
    \A i \in 1..Len(lines) :
      /\ SearchMarker(Corpus[lines[i]]) =>
           OnLine(analysis_results, "Warning: Potential TODO/FIXME/XXX found on line", i) # {}
      /\ SearchStale(Corpus[lines[i]]) =>
           OnLine(analysis_results, "Warning: Potential outdated comment found on line", i) # {}

\* C2: in every result the entries are in the order of the producers:
\* LineScanner, then RuleEngine and parse errors, then ExternalLinter, then
\* the secret scan; no entry of a later producer precedes one of an earlier.
C2_ProducerOrder ==
  (pc = "done" /\ fstate = "ok") =>
    \A i, j \in 1..Len(analysis_results) :
      i < j => Rank(analysis_results[i]) <= Rank(analysis_results[j])

\* C3: when the file cannot be read the result is exactly one error entry
\* and no further step contributes, also when the secret scan is requested.
C3_SingleError ==
  (pc = "done" /\ fstate = "unreadable") =>
    /\ Len(analysis_results) = 1
    /\ Source(analysis_results[1]) = "error"
    /\ calls = {}

\* C4: with format yaml or json and malformed content there is exactly one
\* parse-error entry, no rule-engine entry, and neither the specific check
\* nor the linter is run.
C4_ParseFailure ==
  (Returned /\ fstate = "ok" /\ filetype \in {"yaml", "json"} /\ parsed.kind = "failure") =>
    /\ Cardinality(From(analysis_results, {"parse-error"})) = 1
    /\ From(analysis_results, {"rule-engine", "external-linter"}) = {}
    /\ calls \cap {"yamllint", "jsonlint", "yaml_check", "json_check"} = {}

C4_Witness ==
  /\ pc = "done"
  /\ fstate = "ok"
  /\ filetype = "yaml"
  /\ parsed.kind = "failure"
  /\ linter.present /\ linter.returncode = 1
  /\ "yaml.safe_load" \in calls
  /\ From(analysis_results, {"parse-error"}) # {}

C6_UnknownFormat ==
  (Returned /\ fstate = "ok" /\ ExpectedFormat = "unknown") =>
    /\ calls \cap (YamlSteps \cup JsonSteps) = {}
    /\ "analyze_comments" \in calls
    /\ ContentResult = CommentScan(lines, 1)
    /\ pc = "secrets" => analysis_results = CommentScan(lines, 1)

C6_Witness ==
  /\ pc = "secrets"
  /\ fstate = "ok"
  /\ ExpectedFormat = "unknown"
  /\ Len(analysis_results) >= 2
  /\ parsed.kind = "mapping"

\* The entries the rules are to produce for a parsed document under a format.
RuleReference(ft, data) ==
  IF ft = "yaml" /\ data.kind = "mapping" /\ data.api_version = "str:v1"
    THEN <<W("Warning: api_version is v1, consider upgrading to a newer version.", 0, <<>>, "")>>
  ELSE IF ft = "json" /\ data.kind = "mapping" /\ data.debug = "bool:true"
    THEN <<W("Warning: Debug mode is enabled. Disable in production.", 0, <<>>, "")>>
  ELSE <<>>

\* C7: when the linter of the format is not on the host the adapter adds
\* nothing and the run does not fail: the rules are still evaluated and the
\* result is the one of a run whose linter exits 0 without output.
C7_LinterAbsent ==
  (Returned /\ fstate = "ok" /\ ExpectedFormat \in {"yaml", "json"} /\ parsed.kind # "failure"
     /\ (~linter.present \/ (linter.returncode = 0 /\ linter.stdout = ""))) =>
    /\ From(analysis_results, {"external-linter", "error"}) = {}
    /\ calls \cap {"yaml_check", "json_check"} # {}
    /\ ContentResult = RuleReference(ExpectedFormat, parsed)
    /\ pc = "done" => exit_status = 0

C7_Witness ==
  /\ pc = "done"
  /\ fstate = "ok"
  /\ filetype = "yaml"
  /\ ~linter.present
  /\ "yamllint" \in calls
  /\ parsed.api_version = "str:v1"
  /\ From(analysis_results, {"rule-engine"}) # {}

\* C8: the secret scan runs only on request: without the option the result
\* has no secret-scan entry; with it every line that holds a key fragment,
\* a separator and a token of at least 20 allowed characters has exactly one
\* secret-scan entry with its 1-based number, no other line has one, and the
\* secret-scan entries come after all the others.
C8_SecretScan ==
  (pc \in {"print", "done"} /\ fstate = "ok") =>
    IF args.find_secrets
      THEN /\ \A i \in 1..Len(lines) :
                Cardinality(OnLine(analysis_results, "Potential secret found on line", i))
                  = IF lines[i] \in SecretLineIds THEN 1 ELSE 0
           /\ \A k \in From(analysis_results, {"secret-scan"}) :
                /\ analysis_results[k].line \in 1..Len(lines)
                /\ \A j \in 1..Len(analysis_results) :
                     Source(analysis_results[j]) # "secret-scan" => j < k
      ELSE /\ From(analysis_results, {"secret-scan"}) = {}
           /\ "find_secrets" \notin calls

C8_Witness ==
  /\ pc = "done"
  /\ fstate = "ok"
  /\ args.find_secrets
  /\ lines = <<6, 7>>
  /\ Len(analysis_results) = 2
  /\ Source(analysis_results[1]) = "parse-error"
  /\ analysis_results[2].msg = "Potential secret found on line"
  /\ analysis_results[2].line = 2

\* C9: for a parsed document the rules produce exactly their reference
\* entries: under yaml one upgrade warning when the top level is a mapping
\* whose api_version is the string v1, under json one debug warning when it
\* is a mapping whose debug is the boolean true, none otherwise; an absent
\* key is no error.
C9_RuleEngine ==
  (Returned /\ fstate = "ok" /\ filetype \in {"yaml", "json"} /\ parsed.kind # "failure") =>
    /\ SelectSeq(analysis_results, IsRuleEntry) = RuleReference(filetype, parsed)
    /\ From(analysis_results, {"error", "parse-error"}) = {}
    /\ pc = "done" => exit_status = 0

C9_Witness ==
  /\ pc = "done"
  /\ fstate = "ok"
  /\ filetype = "yaml"
  /\ parsed.kind = "mapping"
  /\ parsed.api_version = "str:v2"
  /\ parsed.debug = "bool:true"
  /\ "yaml_check" \in calls
  /\ From(analysis_results, {"rule-engine"}) = {}

\* C10: the LineScanner evaluates its two classes independently on every
\* line: a line where a comment token is followed anywhere later by a marker
\* word has one marker warning, one where it is followed anywhere later by a
\* staleness word has one staleness warning (so two for a line with both,
\* none for a line with neither), each with the 1-based number of the line.
C10_TwoClasses ==
  (pc = "done" /\ fstate = "ok" /\ "analyze_comments" \in calls) =>
    \A i \in 1..Len(lines) :
      /\ Cardinality(OnLine(analysis_results, "Warning: Potential TODO/FIXME/XXX found on line", i))
           = IF MarkerAnywhere(Corpus[lines[i]]) THEN 1 ELSE 0
      /\ Cardinality(OnLine(analysis_results, "Warning: Potential outdated comment found on line", i))
           = IF StaleAnywhere(Corpus[lines[i]]) THEN 1 ELSE 0

====
